---- MODULE Spec2Model ----
(***************************************************************************)
(* Model of tubegen.py: the carbon nano tube generator.                    *)
(*                                                                         *)
(* The pipeline is   _parse_args -> TubeGen.make_ribbon (symmetry_vector,  *)
(* _make_ucell, _connect_sites, replication, _sow_cells) -> roll_tube.     *)
(*                                                                         *)
(* Geometry is kept exact.  A 2D position is the pair                      *)
(*      << dot(pos, uCh), dot(pos, uT) >>                                  *)
(* measured in units of |Ch|/(3N) and |T|/(3N), N = n_hex_ucell(): in      *)
(* these units every lattice site and every nearest-neighbour shift has    *)
(* integer coordinates (Ch and T are orthogonal), so the floating point    *)
(* values of the program are represented by the integers they approximate. *)
(* A character string the program normalises is a sequence of one-letter   *)
(* strings, so that lower() is computed letter by letter.                  *)
(***************************************************************************)
EXTENDS Integers, Sequences, FiniteSets, TLC

VARIABLES pc, entry, in_args, args, p, R, ucell, ribbon, tube, lat, err, todo

vars == <<pc, entry, in_args, args, p, R, ucell, ribbon, tube, lat, err, todo>>

(* ------------------------------ bounds -------------------------------- *)

\* chiralities (n, m) with m <= n <= MaxN
MaxN == 2
\* ribbons of 1 .. MaxCells unit cells
MaxCells == 2
\* the any-order resolution is explored on ribbons of at most this many sites
MaxOrderSites == 12

(* --------------------------- character strings ------------------------ *)

UpperCase == <<"A", "B", "C", "D", "E", "F", "G", "H", "I", "J", "K", "L", "M",
               "N", "O", "P", "Q", "R", "S", "T", "U", "V", "W", "X", "Y", "Z">>
LowerCase == <<"a", "b", "c", "d", "e", "f", "g", "h", "i", "j", "k", "l", "m",
               "n", "o", "p", "q", "r", "s", "t", "u", "v", "w", "x", "y", "z">>

\* str.lower() on one letter
LowerChar(c) ==
    IF \E i \in 1..Len(UpperCase) : UpperCase[i] = c
    THEN LowerCase[CHOOSE i \in 1..Len(UpperCase) : UpperCase[i] = c]
    ELSE c

\* str.lower()
Lower(s) == [i \in 1..Len(s) |-> LowerChar(s[i])]

PERIODIC == <<"p", "e", "r", "i", "o", "d", "i", "c">>
OPEN     == <<"o", "p", "e", "n">>
TWO_D    == <<"2", "d">>
THREE_D  == <<"3", "d">>

\* the boundary-condition tokens a caller passes
BcTokens == { PERIODIC, OPEN, <<"p">>, <<"O">>,
              <<"O", "p", "e", "n">>,
              <<"P", "E", "R", "I", "O", "D", "I", "C">>,
              <<"x">> }

\* the embedding tokens a caller passes on the command line
EmbTokens == { TWO_D, THREE_D, <<"3", "D">>, <<"1", "d">> }

(* ------------------------------ vector algebra ------------------------ *)

RECURSIVE gcd(_, _)
gcd(a, b) == IF b = 0 THEN a ELSE gcd(b, a % b)

n_hex_ucell(chirality) ==
    LET n == chirality[1]
        m == chirality[2]
    IN  (2 * (m*m + n*n + m*n)) \div gcd(2*m + n, 2*n + m)

n_atoms_ucell(chirality) == 2 * n_hex_ucell(chirality)

\* the translation vector without the division by dR
translation_vector_unreduced(chirality) ==
    LET n  == chirality[1]
        m  == chirality[2]
    IN  << 2*m + n, -(2*n + m) >>

translation_vector_lat_basis(chirality) ==
    LET n  == chirality[1]
        m  == chirality[2]
        dR == gcd(2*m + n, 2*n + m)
    IN  << (2*m + n) \div dR, -((2*n + m) \div dR) >>

\* q = (1 + p*t2)/t1 is "close to integer": the quotient of two integers
\* below 1e10 has a fractional part of 0 or of at least 1/t1
q_is_integer(cand, t1, t2) == (1 + cand * t2) % t1 = 0

q_of(cand, t1, t2) == (1 + cand * t2) \div t1

\* Components along uCh and uT, in units |Ch|/(3N) and |T|/(3N), of the
\* vector (x1/3)*a1 + (x2/3)*a2
Project(x1, x2, chirality) ==
    LET n  == chirality[1]
        m  == chirality[2]
        t  == translation_vector_lat_basis(chirality)
    IN  << x2 * t[1] - x1 * t[2], m * x1 - n * x2 >>

\* |Ch| and |T| in those units
Period(chirality) == 3 * n_hex_ucell(chirality)

(* ------------------------------ _parse_args --------------------------- *)

\* the shorthand expanded without lower()
NormalizeBc_no_lower(tok) ==
    IF tok = <<"p">> THEN PERIODIC
    ELSE IF tok = <<"o">> THEN OPEN
    ELSE tok

\* lines 50-54 / 58-62: lower-case the token, then expand the shorthand
NormalizeBc(tok) ==
    LET l == Lower(tok)
    IN  IF l = <<"p">> THEN PERIODIC
        ELSE IF l = <<"o">> THEN OPEN
        ELSE l

\* _parse_args without the check of lines 63-64
parse_args_skip_bc_t(in) ==
    LET emb   == Lower(in.emb)
        bc_ch == NormalizeBc(in.bc_ch)
        bc_t  == NormalizeBc(in.bc_t)
        out   == [in EXCEPT !.emb = emb, !.bc_ch = bc_ch, !.bc_t = bc_t]
    IN  IF emb \notin {TWO_D, THREE_D}
        THEN [error |-> "Unknown embedding", args |-> out]
        ELSE IF bc_ch \notin {PERIODIC, OPEN}
        THEN [error |-> "Unknown boundary condition for bc_ch", args |-> out]
        ELSE [error |-> "", args |-> out]

\* The outcome of _parse_args: the normalised arguments, or the first
\* parser.error() that is raised (error # "" ends the program)
parse_args(in) ==
    LET emb   == Lower(in.emb)
        bc_ch == NormalizeBc(in.bc_ch)
        bc_t  == NormalizeBc(in.bc_t)
        out   == [in EXCEPT !.emb = emb, !.bc_ch = bc_ch, !.bc_t = bc_t]
    IN  IF emb \notin {TWO_D, THREE_D}
        THEN [error |-> "Unknown embedding", args |-> out]
        ELSE IF bc_ch \notin {PERIODIC, OPEN}
        THEN [error |-> "Unknown boundary condition for bc_ch", args |-> out]
        ELSE IF bc_t \notin {PERIODIC, OPEN}
        THEN [error |-> "Unknown boundary condition for bc_t", args |-> out]
        ELSE [error |-> "", args |-> out]

(* ------------------------------ lattice ------------------------------- *)

\* lattice.Site(idx, pos, even=...): a site without bonds
NewSite(idx, pos, even) ==
    [idx |-> idx, pos |-> pos, neighbours |-> <<>>, hopping |-> <<>>,
     even |-> even, cross_ch_boundary |-> <<>>, cross_t_boundary |-> <<>>]

\* one site of lattice.shifted_lattice: a copy of the site, moved by v
shifted_site(site, v) ==
    [site EXCEPT !.pos = <<site.pos[1] + v[1], site.pos[2] + v[2]>>]

\* lattice.shifted_lattice(lat, v): copies of the sites of lat, moved by v
shifted_lattice(sites, v) ==
    [k \in 1..Len(sites) |-> shifted_site(sites[k], v)]

\* Lattice.at(pos): the place in the lattice of the first site at pos, 0 for None
at(sites, pos) ==
    IF \E k \in 1..Len(sites) : sites[k].pos = pos
    THEN CHOOSE k \in 1..Len(sites) :
            /\ sites[k].pos = pos
            /\ \A j \in 1..(k-1) : sites[j].pos # pos
    ELSE 0

(* ------------------------------ unit cell ----------------------------- *)

\* itertools.product((0, +1, -1), repeat=2)
PadOrder == << <<0, 0>>, <<0, 1>>, <<0, -1>>,
               <<1, 0>>, <<1, 1>>, <<1, -1>>,
               <<-1, 0>>, <<-1, 1>>, <<-1, -1>> >>

\* _padded_lattice: nine copies of lat, each site tagged with pad_ch, pad_t
padded_lattice(sites, chirality) ==
    LET L  == Len(sites)
        P  == Period(chirality)
    IN  [j \in 1..(9 * L) |->
            LET c == ((j - 1) \div L) + 1
                k == ((j - 1) % L) + 1
                s == shifted_site(sites[k], <<PadOrder[c][1] * P, PadOrder[c][2] * P>>)
            IN  [idx |-> s.idx, pos |-> s.pos,
                 pad_ch |-> PadOrder[c][1], pad_t |-> PadOrder[c][2]]]

\* shift0, shift1, shift2 of _connect_sites
Shifts(chirality) ==
    << Project(1, 1, chirality), Project(-2, 1, chirality), Project(1, -2, chirality) >>

\* The body of the loop over the sites in _connect_sites
connect_site(site, padded, chirality) ==
    LET sh == Shifts(chirality)
        shifted(k) == IF site.even
                      THEN <<site.pos[1] + sh[k][1], site.pos[2] + sh[k][2]>>
                      ELSE <<site.pos[1] - sh[k][1], site.pos[2] - sh[k][2]>>
        hits  == [k \in 1..3 |-> at(padded, shifted(k))]
        found == SelectSeq(hits, LAMBDA h : h # 0)
        neighbours == [k \in 1..Len(found) |-> padded[found[k]].idx]
    IN  [site EXCEPT
            !.neighbours = neighbours,
            !.hopping = [k \in 1..Len(neighbours) |-> 1],
            !.cross_ch_boundary = [k \in 1..Len(found) |-> padded[found[k]].pad_ch],
            !.cross_t_boundary = [k \in 1..Len(found) |-> padded[found[k]].pad_t]]

\* _connect_sites
connect_sites(sites, chirality) ==
    LET padded == padded_lattice(sites, chirality)
    IN  [k \in 1..Len(sites) |-> connect_site(sites[k], padded, chirality)]

\* _make_ucell, lines 341-354: the sites at i*R and i*R + eo_shift, reduced
\* into the cell
place_sites(chirality, Rv) ==
    LET P == Period(chirality)
        red(v) == <<v[1] % P, v[2] % P>>
    IN  [k \in 1..n_atoms_ucell(chirality) |->
            LET i == (k - 1) \div 2
            IN  IF (k - 1) % 2 = 0
                THEN NewSite(k - 1, red(Project(3*i*Rv[1], 3*i*Rv[2], chirality)), TRUE)
                ELSE NewSite(k - 1,
                             red(Project(3*i*Rv[1] + 1, 3*i*Rv[2] + 1, chirality)),
                             FALSE)]

(* ------------------------------ ribbon -------------------------------- *)

\* make_ribbon, lines 178-183: cell i is the unit cell moved by i*T, with
\* every idx raised by i*len(ucell)
replicate(cell, n_ucells, chirality) ==
    LET L == Len(cell)
        P == Period(chirality)
    IN  [j \in 1..(n_ucells * L) |->
            LET i == (j - 1) \div L
                k == ((j - 1) % L) + 1
                s == shifted_site(cell[k], <<0, i * P>>)
            IN  [s EXCEPT !.idx = s.idx + i * L]]

\* zip(site.neighbours, site["cross_ch_boundary"], site["cross_t_boundary"])
ZipLen(site) ==
    LET a == Len(site.neighbours)
        b == Len(site.cross_ch_boundary)
        c == Len(site.cross_t_boundary)
        ab == IF a < b THEN a ELSE b
    IN  IF ab < c THEN ab ELSE c

\* line 385 with "and" for "or": no bond leaves the last cell upwards
sow_bond_last_cell_closed(acc, neigh, xchb, xtb, i, n_ucells, luc, bc_ch, bc_t) ==
    IF xchb = 0 \/ bc_ch = PERIODIC
    THEN IF xtb = 0
         THEN Append(acc, neigh + i * luc)
         ELSE IF xtb = 1 /\ (bc_t = PERIODIC /\ i # n_ucells - 1)
         THEN Append(acc, neigh + ((i + 1) % n_ucells) * luc)
         ELSE IF xtb = -1 /\ (bc_t = PERIODIC \/ i # 0)
         THEN Append(acc, neigh + ((i - 1) % n_ucells) * luc)
         ELSE acc
    ELSE acc

\* lines 386 and 389 without the modulo
sow_bond_no_wrap(acc, neigh, xchb, xtb, i, n_ucells, luc, bc_ch, bc_t) ==
    IF xchb = 0 \/ bc_ch = PERIODIC
    THEN IF xtb = 0
         THEN Append(acc, neigh + i * luc)
         ELSE IF xtb = 1 /\ (bc_t = PERIODIC \/ i # n_ucells - 1)
         THEN Append(acc, neigh + (i + 1) * luc)
         ELSE IF xtb = -1 /\ (bc_t = PERIODIC \/ i # 0)
         THEN Append(acc, neigh + (i - 1) * luc)
         ELSE acc
    ELSE acc

\* the kept bond put in front of the list (insert(0, ...) for append)
sow_bond_prepend(acc, neigh, xchb, xtb, i, n_ucells, luc, bc_ch, bc_t) ==
    IF xchb = 0 \/ bc_ch = PERIODIC
    THEN IF xtb = 0
         THEN <<neigh + i * luc>> \o acc
         ELSE IF xtb = 1 /\ (bc_t = PERIODIC \/ i # n_ucells - 1)
         THEN <<neigh + ((i + 1) % n_ucells) * luc>> \o acc
         ELSE IF xtb = -1 /\ (bc_t = PERIODIC \/ i # 0)
         THEN <<neigh + ((i - 1) % n_ucells) * luc>> \o acc
         ELSE acc
    ELSE acc

\* line 388 with the test of line 385 copied: i != n_ucells-1 for i != 0
sow_bond_copied_test(acc, neigh, xchb, xtb, i, n_ucells, luc, bc_ch, bc_t) ==
    IF xchb = 0 \/ bc_ch = PERIODIC
    THEN IF xtb = 0
         THEN Append(acc, neigh + i * luc)
         ELSE IF xtb = 1 /\ (bc_t = PERIODIC \/ i # n_ucells - 1)
         THEN Append(acc, neigh + ((i + 1) % n_ucells) * luc)
         ELSE IF xtb = -1 /\ (bc_t = PERIODIC \/ i # n_ucells - 1)
         THEN Append(acc, neigh + ((i - 1) % n_ucells) * luc)
         ELSE acc
    ELSE acc

\* _sow_cells, lines 380-389: the list of neighbours after one bond
\* (neigh, xchb, xtb) of a site of cell i has been looked at
sow_bond(acc, neigh, xchb, xtb, i, n_ucells, luc, bc_ch, bc_t) ==
    IF xchb = 0 \/ bc_ch = PERIODIC
    THEN IF xtb = 0
         THEN Append(acc, neigh + i * luc)
         ELSE IF xtb = 1 /\ (bc_t = PERIODIC \/ i # n_ucells - 1)
         THEN Append(acc, neigh + ((i + 1) % n_ucells) * luc)
         ELSE IF xtb = -1 /\ (bc_t = PERIODIC \/ i # 0)
         THEN Append(acc, neigh + ((i - 1) % n_ucells) * luc)
         ELSE acc
    ELSE acc

\* _sow_cells, lines 377-389: the loop over the bonds, from the j-th on
RECURSIVE sow_bonds(_, _, _, _, _, _, _, _)
sow_bonds(site, j, acc, i, n_ucells, luc, bc_ch, bc_t) ==
    IF j > ZipLen(site) THEN acc
    ELSE sow_bonds(site, j + 1,
                   sow_bond(acc, site.neighbours[j], site.cross_ch_boundary[j],
                            site.cross_t_boundary[j], i, n_ucells, luc, bc_ch, bc_t),
                   i, n_ucells, luc, bc_ch, bc_t)

\* the loop body reading the bonds of the first cell's copy of the site,
\* as it is at that moment, in place of the site's own
sow_site_of_first_cell(sites, i, k, n_ucells, luc, bc_ch, bc_t) ==
    sow_bonds(sites[((k - 1) % luc) + 1], 1, <<>>, i, n_ucells, luc, bc_ch, bc_t)

\* _sow_cells, lines 376-391: the body of the loop for the k-th site of
\* sites, which lies in cell i; the site's new list of neighbours
sow_site(sites, i, k, n_ucells, luc, bc_ch, bc_t) ==
    sow_bonds(sites[k], 1, <<>>, i, n_ucells, luc, bc_ch, bc_t)

\* _sow_cells, lines 374-391: the loops, from the k-th site on
RECURSIVE sow_from(_, _, _, _, _, _)
sow_from(sites, k, n_ucells, luc, bc_ch, bc_t) ==
    IF k > n_ucells * luc \/ k > Len(sites) THEN sites
    ELSE sow_from([sites EXCEPT ![k].neighbours =
                        sow_site(sites, (k - 1) \div luc, k, n_ucells, luc, bc_ch, bc_t)],
                  k + 1, n_ucells, luc, bc_ch, bc_t)

\* _sow_cells
sow_cells(sites, n_ucells, luc, bc_ch, bc_t) ==
    sow_from(sites, 1, n_ucells, luc, bc_ch, bc_t)

(* ------------------------------ tube ---------------------------------- *)

\* the 3D site made without the bonds of the ribbon site
roll_site_without_bonds(site) ==
    [idx |-> site.idx,
     pos |-> [phi |-> site.pos[1], z |-> site.pos[2]],
     neighbours |-> <<>>,
     hopping |-> <<>>]

\* roll_tube, lines 208-217: the 3D site of a ribbon site.  The position
\* (radius*cos(phi), radius*sin(phi), z) is kept as the cylinder
\* coordinates it is computed from: phi in units of 2*pi/(3N), z in units
\* of |T|/(3N)
roll_site(site) ==
    [idx |-> site.idx,
     pos |-> [phi |-> site.pos[1], z |-> site.pos[2]],
     neighbours |-> site.neighbours,
     hopping |-> site.hopping]

\* roll_tube
roll_tube(sites) == [k \in 1..Len(sites) |-> roll_site(sites[k])]

(* ------------------------------ the program --------------------------- *)

Chiralities ==
    { c \in (0..MaxN) \X (0..MaxN) : c[1] >= c[2] /\ c[1] + c[2] > 0 }

\* What a caller passes: on the command line (entry "run") or to
\* make_ribbon and roll_tube directly (entry "make_ribbon", where emb only
\* says whether the caller rolls the ribbon)
Inputs(e) ==
    [chirality : Chiralities, length : 1..MaxCells,
     bc_ch : BcTokens, bc_t : BcTokens,
     emb : IF e = "run" THEN EmbTokens ELSE {TWO_D, THREE_D}]

Init ==
    /\ entry \in {"run", "make_ribbon"}
    /\ in_args \in Inputs(entry)
    /\ args = in_args
    /\ pc = IF entry = "run" THEN "parse_args" ELSE "make_ribbon"
    /\ p = 0
    /\ R = <<>>
    /\ ucell = <<>>
    /\ ribbon = <<>>
    /\ tube = <<>>
    /\ lat = "none"
    /\ err = ""
    /\ todo = {}

\* run, line 71: _parse_args, lines 45-66
ParseArgs ==
    /\ pc = "parse_args"
    /\ LET r == parse_args(args)
       IN  /\ args' = r.args
           /\ err' = r.error
           /\ pc' = IF r.error = "" THEN "make_ribbon" ELSE "error"
    /\ UNCHANGED <<entry, in_args, p, R, ucell, ribbon, tube, lat, todo>>

\* make_ribbon, lines 172-175, up to the loop of symmetry_vector
MakeRibbon ==
    /\ pc = "make_ribbon"
    /\ p' = 1
    /\ pc' = "symmetry_vector"
    /\ UNCHANGED <<entry, in_args, args, R, ucell, ribbon, tube, lat, err, todo>>

\* symmetry_vector, lines 160-165: one turn of the loop, or the
\* RuntimeError after it
SymmetryVector ==
    /\ pc = "symmetry_vector"
    /\ LET t == translation_vector_lat_basis(args.chirality)
       IN  IF p > n_atoms_ucell(args.chirality)
           THEN /\ err' = "Unable to find symmetry vector"
                /\ pc' = "error"
                /\ UNCHANGED <<p, R>>
           ELSE IF q_is_integer(p, t[1], t[2])
           THEN /\ R' = <<p, q_of(p, t[1], t[2])>>
                /\ pc' = "make_ucell"
                /\ UNCHANGED <<p, err>>
           ELSE /\ p' = p + 1
                /\ UNCHANGED <<pc, R, err>>
    /\ UNCHANGED <<entry, in_args, args, ucell, ribbon, tube, lat, todo>>

\* _make_ucell, lines 341-354
MakeUcell ==
    /\ pc = "make_ucell"
    /\ ucell' = place_sites(args.chirality, R)
    /\ pc' = "connect_sites"
    /\ UNCHANGED <<entry, in_args, args, p, R, ribbon, tube, lat, err, todo>>

\* _make_ucell, line 356: _connect_sites
ConnectSites ==
    /\ pc = "connect_sites"
    /\ ucell' = connect_sites(ucell, args.chirality)
    /\ pc' = "replicate"
    /\ UNCHANGED <<entry, in_args, args, p, R, ribbon, tube, lat, err, todo>>

\* make_ribbon, lines 178-183
Replicate ==
    /\ pc = "replicate"
    /\ ribbon' = replicate(ucell, args.length, args.chirality)
    /\ todo' = 1..(args.length * Len(ucell))
    /\ pc' = "sow_cells"
    /\ UNCHANGED <<entry, in_args, args, p, R, ucell, tube, lat, err>>

\* make_ribbon, lines 186-187: _sow_cells
SowCells ==
    /\ pc = "sow_cells"
    /\ ribbon' = sow_cells(ribbon, args.length, Len(ucell), args.bc_ch, args.bc_t)
    /\ todo' = {}
    /\ lat' = "ribbon"
    /\ pc' = "sown"
    /\ UNCHANGED <<entry, in_args, args, p, R, ucell, tube, err>>

\* run, lines 75-76: roll_tube
RollTube ==
    /\ pc = "sown"
    /\ args.emb = THREE_D
    /\ tube' = roll_tube(ribbon)
    /\ lat' = "tube"
    /\ pc' = "done"
    /\ UNCHANGED <<entry, in_args, args, p, R, ucell, ribbon, err, todo>>

\* run, lines 75 and 83: the ribbon is returned as it is
Return2d ==
    /\ pc = "sown"
    /\ args.emb # THREE_D
    /\ pc' = "done"
    /\ UNCHANGED <<entry, in_args, args, p, R, ucell, ribbon, tube, lat, err, todo>>

\* _sow_cells, lines 376-391, for one site that is still to be resolved:
\* the loop body, run in an order the loops of lines 374-375 do not fix
SowSite(k) ==
    /\ pc = "sow_cells"
    /\ k \in todo
    /\ ribbon' = [ribbon EXCEPT ![k].neighbours =
                    sow_site(ribbon, (k - 1) \div Len(ucell), k,
                             args.length, Len(ucell), args.bc_ch, args.bc_t)]
    /\ todo' = todo \ {k}
    /\ lat' = IF todo' = {} THEN "ribbon" ELSE lat
    /\ pc' = IF todo' = {} THEN "sown" ELSE pc
    /\ UNCHANGED <<entry, in_args, args, p, R, ucell, tube, err>>

Next ==
    \/ ParseArgs
    \/ MakeRibbon
    \/ SymmetryVector
    \/ MakeUcell
    \/ ConnectSites
    \/ Replicate
    \/ SowCells
    \/ RollTube
    \/ Return2d

Spec == Init /\ [][Next]_vars

\* The program started from the command line only
InitRun == Init /\ entry = "run"

SpecRun == InitRun /\ [][Next]_vars

\* symmetry_vector alone, for more chiralities than a ribbon is built for
MaxSymN == 9

InitSym ==
    /\ entry = "make_ribbon"
    /\ in_args \in [chirality : { c \in (0..MaxSymN) \X (0..MaxSymN) :
                                    c[1] >= c[2] /\ c[1] + c[2] > 0 },
                    length : {1}, bc_ch : {PERIODIC}, bc_t : {PERIODIC},
                    emb : {TWO_D}]
    /\ args = in_args
    /\ pc = "make_ribbon"
    /\ p = 0
    /\ R = <<>>
    /\ ucell = <<>>
    /\ ribbon = <<>>
    /\ tube = <<>>
    /\ lat = "none"
    /\ err = ""
    /\ todo = {}

NextSym ==
    \/ MakeRibbon
    \/ SymmetryVector

SpecSym == InitSym /\ [][NextSym]_vars

\* make_ribbon with the sites of _sow_cells resolved in any order
InitOrder ==
    /\ Init
    /\ entry = "make_ribbon"
    /\ in_args.bc_ch \in {PERIODIC, OPEN}
    /\ in_args.bc_t \in {PERIODIC, OPEN}
    /\ in_args.length * n_atoms_ucell(in_args.chirality) <= MaxOrderSites

NextOrder ==
    \/ MakeRibbon
    \/ SymmetryVector
    \/ MakeUcell
    \/ ConnectSites
    \/ Replicate
    \/ \E k \in todo : SowSite(k)
    \/ RollTube
    \/ Return2d

SpecOrder == InitOrder /\ [][NextOrder]_vars

(* ------------------------------ properties ---------------------------- *)

\* make_ribbon has returned
Sown == pc \in {"sown", "done"}

\* The cell of the k-th site of the ribbon and its place in the unit cell
CellOf(k) == (k - 1) \div Len(ucell)
LocalOf(k) == ((k - 1) % Len(ucell)) + 1

\* Some bond of the unit cell was dropped from the k-th site of the ribbon
Dropped(k) == Len(ribbon[k].neighbours) < Len(ucell[LocalOf(k)].neighbours)

\* The k-th site of the ribbon is bonded to a site of another cell
BondsOtherCell(k) ==
    \E j \in 1..Len(ribbon[k].neighbours) :
        ribbon[k].neighbours[j] \div Len(ucell) # CellOf(k)

\* C1: a ribbon made with both boundary conditions periodic has exactly 3
\* neighbours at every site.
C1_FullyPeriodicThreeRegular ==
    (Sown /\ args.bc_ch = PERIODIC /\ args.bc_t = PERIODIC)
        => \A k \in 1..Len(ribbon) : Len(ribbon[k].neighbours) = 3

C1_Witness ==
    /\ Sown
    /\ args.bc_ch = PERIODIC /\ args.bc_t = PERIODIC
    /\ args.length >= 2
    /\ Len(ribbon) = args.length * n_atoms_ucell(args.chirality)
    /\ \E k \in 1..Len(ribbon) : BondsOtherCell(k)

\* C2: neighbours and hopping have the same length at every site of the
\* unit cell, of the ribbon and of the tube, at every stage.
C2_NeighboursHoppingAligned ==
    /\ \A k \in 1..Len(ucell) : Len(ucell[k].neighbours) = Len(ucell[k].hopping)
    /\ \A k \in 1..Len(ribbon) : Len(ribbon[k].neighbours) = Len(ribbon[k].hopping)
    /\ \A k \in 1..Len(tube) : Len(tube[k].neighbours) = Len(tube[k].hopping)

\* C3: every index in every site's final list of neighbours lies in
\* [0, n_ucells * atoms_per_cell).
C3_IndicesInRange ==
    Sown => \A k \in 1..Len(ribbon) :
                \A j \in 1..Len(ribbon[k].neighbours) :
                    /\ ribbon[k].neighbours[j] >= 0
                    /\ ribbon[k].neighbours[j] < args.length * Len(ucell)

\* open circumference, periodic axis, two cells or more, and a bond that
\* wraps from the last cell to the first
C3_Witness ==
    /\ Sown
    /\ args.bc_ch = OPEN /\ args.bc_t = PERIODIC
    /\ args.length >= 2
    /\ \E k \in 1..Len(ribbon) :
            /\ CellOf(k) = args.length - 1
            /\ \E j \in 1..Len(ribbon[k].neighbours) :
                    ribbon[k].neighbours[j] < Len(ucell)
    /\ \E k \in 1..Len(ribbon) : Dropped(k)

\* A boundary-condition token the documentation allows, in any letter case
Recognised(tok) == Lower(tok) \in {PERIODIC, OPEN, <<"p">>, <<"o">>}

\* The full lowercase word a recognised token stands for
Word(tok) == IF Lower(tok) \in {PERIODIC, <<"p">>} THEN PERIODIC ELSE OPEN

\* Whether bond j of a unit-cell site is kept for the copy of the site in
\* cell i, for a circumference and an axis that are periodic or not
Kept(site, j, i, n_ucells, ch_periodic, t_periodic) ==
    /\ site.cross_ch_boundary[j] = 0 \/ ch_periodic
    /\ \/ site.cross_t_boundary[j] = 0
       \/ site.cross_t_boundary[j] = 1 /\ (t_periodic \/ i # n_ucells - 1)
       \/ site.cross_t_boundary[j] = -1 /\ (t_periodic \/ i # 0)

\* The final list of neighbours the rules give the copy in cell i of a
\* unit-cell site: the kept bonds in their order, each moved to the cell it
\* reaches
Resolved(site, i, n_ucells, luc, ch_periodic, t_periodic) ==
    LET bonds == [j \in 1..Len(site.neighbours) |-> j]
        kept  == SelectSeq(bonds,
                    LAMBDA j : Kept(site, j, i, n_ucells, ch_periodic, t_periodic))
    IN  [x \in 1..Len(kept) |->
            site.neighbours[kept[x]]
                + ((i + site.cross_t_boundary[kept[x]]) % n_ucells) * luc]

\* The ribbon is the one the rules give for the two words
RibbonFor(bc_ch, bc_t) ==
    /\ Len(ribbon) = args.length * Len(ucell)
    /\ \A k \in 1..Len(ribbon) :
            ribbon[k].neighbours =
                Resolved(ucell[LocalOf(k)], CellOf(k), args.length, Len(ucell),
                         bc_ch = PERIODIC, bc_t = PERIODIC)

\* C4 as stated: make_ribbon itself takes 'periodic', 'open', 'p', 'o' in
\* any letter case and returns the ribbon of the full lowercase word.
C4_MakeRibbonNormalizes ==
    (Sown /\ Recognised(in_args.bc_ch) /\ Recognised(in_args.bc_t))
        => RibbonFor(Word(in_args.bc_ch), Word(in_args.bc_t))

\* C4 as amended: started from the command line, _parse_args takes each
\* boundary condition as 'periodic', 'open', 'p' or 'o' in any letter case
\* without an error about it, hands make_ribbon the full lowercase word,
\* and the ribbon is the one of that word.
C4_RunNormalizes ==
    (entry = "run" /\ Recognised(in_args.bc_ch) /\ Recognised(in_args.bc_t))
        => /\ err \in {"", "Unknown embedding"}
           /\ pc # "parse_args"
                => /\ args.bc_ch = Word(in_args.bc_ch)
                   /\ args.bc_t = Word(in_args.bc_t)
           /\ Sown => RibbonFor(Word(in_args.bc_ch), Word(in_args.bc_t))

\* a shorthand in upper case and a word in mixed case, and bonds dropped
C4_Witness ==
    /\ entry = "run"
    /\ Sown
    /\ in_args.bc_ch = <<"O">>
    /\ in_args.bc_t = <<"P", "E", "R", "I", "O", "D", "I", "C">>
    /\ \E k \in 1..Len(ribbon) : Dropped(k)
    /\ \E k \in 1..Len(ribbon) : BondsOtherCell(k)

C6_SymmetryVectorFound ==
    LET t == translation_vector_lat_basis(args.chirality)
    IN  /\ err # "Unable to find symmetry vector"
        /\ pc = "symmetry_vector" => p <= n_atoms_ucell(args.chirality)
        /\ R # <<>>
            => /\ R[1] \in 1..n_atoms_ucell(args.chirality)
               /\ t[1] * R[2] - t[2] * R[1] = 1
               /\ \A c \in 1..(R[1] - 1) : (1 + c * t[2]) % t[1] # 0

\* the search has gone past p = 1 and has found its vector
C6_Witness ==
    /\ pc = "make_ucell"
    /\ R # <<>>
    /\ R[1] >= 3
    /\ args.chirality[2] >= 1

\* C7: the final list of neighbours of every site is, in the order of the
\* unit cell's bonds, the kept bonds moved to the cell they reach.
C7_FinalNeighbours ==
    (Sown /\ args.bc_ch \in {PERIODIC, OPEN} /\ args.bc_t \in {PERIODIC, OPEN})
        => RibbonFor(args.bc_ch, args.bc_t)

\* an open axis of two cells or more: a bond dropped at an end, a bond
\* kept into the next cell
C7_Witness ==
    /\ Sown
    /\ args.bc_ch = PERIODIC /\ args.bc_t = OPEN
    /\ args.length >= 2
    /\ \E k \in 1..Len(ribbon) : CellOf(k) = 0 /\ Dropped(k)
    /\ \E k \in 1..Len(ribbon) : CellOf(k) = 0 /\ BondsOtherCell(k)
    /\ \E k \in 1..Len(ribbon) : CellOf(k) = args.length - 1 /\ Dropped(k)

\* C8: resolving the sites in any order gives every site the list of
\* neighbours the cell-by-cell order gives it: a site not yet resolved is
\* as replication left it, a resolved site is as _sow_cells leaves it.
C8_OrderIndependent ==
    pc \in {"sow_cells", "sown", "done"}
        => LET start == replicate(ucell, args.length, args.chirality)
               final == sow_cells(start, args.length, Len(ucell),
                                  args.bc_ch, args.bc_t)
           IN  /\ Len(ribbon) = Len(final)
               /\ \A k \in 1..Len(ribbon) :
                    ribbon[k] = IF k \in todo THEN start[k] ELSE final[k]

\* the last site of a ribbon of several cells is resolved and has lost a
\* bond, a resolved site is bonded to another cell, and the first site is
\* still to be resolved
C8_Witness ==
    /\ pc = "sow_cells"
    /\ args.length >= 2
    /\ 1 \in todo
    /\ Len(ribbon) \notin todo
    /\ Dropped(Len(ribbon))
    /\ \E k \in 2..Len(ribbon) : k \notin todo /\ BondsOtherCell(k)

\* C9: the step of roll_tube leaves the ribbon as it is and builds one
\* tube site per ribbon site, in the same order, with the same idx,
\* neighbours and hopping.
C9_RollTubeFrame ==
    [][(pc = "sown" /\ pc' = "done" /\ lat' = "tube")
        => /\ ribbon' = ribbon
           /\ Len(tube') = Len(ribbon)
           /\ \A k \in 1..Len(ribbon) :
                /\ tube'[k].idx = ribbon[k].idx
                /\ tube'[k].neighbours = ribbon[k].neighbours
                /\ tube'[k].hopping = ribbon[k].hopping]_vars

C9_Witness ==
    /\ pc = "done"
    /\ lat = "tube"
    /\ args.length >= 2
    /\ Len(tube) = args.length * n_atoms_ucell(args.chirality)
    /\ \E k \in 1..Len(tube) : Len(tube[k].neighbours) = 2
    /\ \E k \in 1..Len(tube) : tube[k].idx >= Len(ucell)

\* Every bond a -> b of the unit cell has a bond b -> a with the opposite
\* crossing flags
UcellSymmetric ==
    \A a \in 1..Len(ucell) :
        \A j \in 1..Len(ucell[a].neighbours) :
            LET b == ucell[a].neighbours[j] + 1
            IN  \E x \in 1..Len(ucell[b].neighbours) :
                    /\ ucell[b].neighbours[x] = ucell[a].idx
                    /\ ucell[b].cross_ch_boundary[x] = -ucell[a].cross_ch_boundary[j]
                    /\ ucell[b].cross_t_boundary[x] = -ucell[a].cross_t_boundary[j]

\* C10: in an assembled ribbon, whenever b is in the list of neighbours
\* of a, a is in the list of neighbours of b.
C10_BondsSymmetric ==
    (Sown /\ UcellSymmetric)
        => \A a \in 1..Len(ribbon) :
              \A j \in 1..Len(ribbon[a].neighbours) :
                 LET b == ribbon[a].neighbours[j] + 1
                 IN  \E x \in 1..Len(ribbon[b].neighbours) :
                        ribbon[b].neighbours[x] = ribbon[a].idx

\* both directions open, several cells: bonds dropped, bonds kept between
\* cells
C10_Witness ==
    /\ Sown
    /\ UcellSymmetric
    /\ args.bc_ch = OPEN /\ args.bc_t = OPEN
    /\ args.length >= 2
    /\ \E k \in 1..Len(ribbon) : Dropped(k) /\ BondsOtherCell(k)

====
